---- MODULE Spec2Model ----
(***************************************************************************)
(* Model of cli/src/semdep/parsers/pom_tree.py: the parser of the output   *)
(* of Maven's dependency tree report.  A document is a sequence of         *)
(* one-character strings; every parser is an operator from a stream and an *)
(* index (1-based, the next character to read) to a result                 *)
(* [ok, idx, val], as in parsy.                                            *)
(***************************************************************************)
EXTENDS Integers, Sequences, FiniteSets, TLC

VARIABLES
    doc,        \* the document as it was printed: root label, dependency lines, final line break
    text,       \* the characters of the file at tree_path
    pc,         \* position inside parse_pom_tree
    deps,       \* parse_pom_tree's local deps
    output      \* parse_pom_tree's local output, and its return value at "done"

vars == <<doc, text, pc, deps, output>>

----------------------------------------------------------------------------
(* Bounds of the checked documents *)

MaxLines == 2       \* dependency lines per document
MaxDepth == 2       \* indentation markers per well-formed line

----------------------------------------------------------------------------
(* Characters and tokens *)

NL    == <<"\n">>
Colon == ":"
Bar   == <<"|", " ", " ">>       \* string("|  ")
Fill  == <<" ", " ", " ">>       \* string("   ")
Tee   == <<"+", "-", " ">>       \* string("+- ")
Last  == <<"\\", "-", " ">>      \* string(r"\- ")
NoGlyph   == <<>>                \* a line printed without a branch glyph
BadMarker == <<"|", " ">>        \* a marker one space short

Markers == {Bar, Fill}
Glyphs  == {Tee, Last}

RECURSIVE Flatten(_)
Flatten(ss) == IF ss = <<>> THEN <<>> ELSE Head(ss) \o Flatten(Tail(ss))

RECURSIVE Join(_)
\* the fields of a coordinate, colon-separated
Join(fs) ==
    IF fs = <<>> THEN <<>>
    ELSE IF Len(fs) = 1 THEN Head(fs)
    ELSE Head(fs) \o <<Colon>> \o Join(Tail(fs))

LineText(l) == Flatten(l.pre) \o l.glyph \o Join(l.coord)

RECURSIVE LinesText(_)
LinesText(ls) ==
    IF ls = <<>> THEN <<>> ELSE NL \o LineText(Head(ls)) \o LinesText(Tail(ls))

\* the text of a document: the root label, each dependency line on a line of
\* its own, and possibly a line break after the last line
Render(d) == d.root \o LinesText(d.lines) \o (IF d.nl THEN NL ELSE <<>>)

----------------------------------------------------------------------------
(* The documents that are checked *)

CoordA    == << <<"g">>, <<"a">>, <<"j">>, <<"1">>, <<"c">> >>            \* g:a:j:1:c
CoordB    == << <<"h">>, <<"b","b">>, <<"w">>, <<"2",".","0">>, <<"t">> >> \* h:bb:w:2.0:t
CoordTail == << <<"h">>, <<"a">>, <<"w">>, <<"1">>, <<"c">>, <<"x">> >>   \* h:a:w:1:c:x
Coord4    == << <<"g">>, <<"a">>, <<"j">>, <<"1">> >>                     \* g:a:j:1
Coord3    == << <<"g">>, <<"a">>, <<"j">> >>                              \* g:a:j
CoordNoName == << <<"g">>, <<>>, <<"j">>, <<"1">>, <<"c">> >>             \* g::j:1:c

RECURSIVE SeqsUpTo(_, _)
\* the sequences over S of length at most n
SeqsUpTo(S, n) ==
    IF n = 0 THEN {<<>>}
    ELSE LET R == SeqsUpTo(S, n - 1)
         IN  R \cup {Append(r, x) : r \in {q \in R : Len(q) = n - 1}, x \in S}

Line(pre, glyph, coord) == [pre |-> pre, glyph |-> glyph, coord |-> coord]

\* lines at depth 0 and 1: every marker spelling with every branch glyph
ShallowLines ==
    {Line(p, g, CoordA) : p \in {<<>>, <<Bar>>, <<Fill>>}, g \in Glyphs}
    \cup {Line(<<>>, Tee, CoordB), Line(<<Bar>>, Tee, CoordTail)}

\* lines at depth 2 and more: every mix of the marker spellings with every
\* branch glyph
DeepLines ==
    {Line(p, g, CoordA) : p \in {q \in SeqsUpTo(Markers, MaxDepth) : Len(q) >= 2},
                          g \in Glyphs}

FourFieldLines == {Line(<<>>, Tee, Coord4), Line(<<Fill>>, Last, Coord4)}
ThreeFieldLines == {Line(<<>>, Tee, Coord3), Line(<<Bar>>, Last, Coord3)}

BlankLine == Line(<<>>, NoGlyph, <<>>)

BadLines ==
    FourFieldLines \cup ThreeFieldLines
    \cup { Line(<<>>, Tee, CoordNoName),          \* empty artifact name
           Line(<<>>, NoGlyph, CoordA),           \* missing branch glyph
           Line(<<Bar>>, NoGlyph, CoordA),        \* markers, then no glyph
           Line(<<BadMarker>>, Tee, CoordA),      \* malformed indentation prefix
           BlankLine }

Lines == ShallowLines \cup BadLines

\* up to MaxLines lines; a deep line stands last, as the last descendant
\* of the lines before it
LineSeqs ==
    SeqsUpTo(Lines, MaxLines)
    \cup {Append(q, l) : q \in SeqsUpTo(Lines, MaxLines - 1), l \in DeepLines}

PlainRoot == <<"r", ":", "p">>
Roots == {PlainRoot, LineText(Line(<<>>, Tee, CoordA))}

\* A blank last line is the same text as a final line break, so a document is
\* described with the blank line only before its last line.
Docs ==
    { d \in [root : Roots, lines : LineSeqs, nl : BOOLEAN] :
        d.lines # <<>> => d.lines[Len(d.lines)] # BlankLine }

----------------------------------------------------------------------------
(* parsy results and primitives.  A parser is applied to the result r of  *)
(* the parser before it: it starts at r.idx, and fails when r has failed. *)

Ok(i, v) == [ok |-> TRUE, idx |-> i, val |-> v]
Fail     == [ok |-> FALSE, idx |-> 0, val |-> <<>>]
At(i)    == Ok(i, <<>>)

\* parsy.string(lit): the literal at the index, or failure
string(lit, s, r) ==
    IF /\ r.ok
       /\ r.idx + Len(lit) - 1 <= Len(s)
       /\ SubSeq(s, r.idx, r.idx + Len(lit) - 1) = lit
    THEN Ok(r.idx + Len(lit), lit)
    ELSE Fail

\* r << string(lit).optional(): the literal is skipped when it is there
skip_optional(lit, s, r) ==
    IF string(lit, s, r).ok THEN Ok(r.idx + Len(lit), r.val) ELSE r

RECURSIVE SpanEnd(_, _, _)
\* the first index at or after i that holds a character of stops, or Len(s) + 1
SpanEnd(s, i, stops) ==
    IF i > Len(s) \/ s[i] \in stops THEN i ELSE SpanEnd(s, i + 1, stops)

\* semdep.parsers.util.consume_line: everything up to the end of the line,
\* the line break not included; never fails
consume_line(s, r) ==
    IF ~r.ok THEN Fail
    ELSE Ok(SpanEnd(s, r.idx, {"\n"}), SubSeq(s, r.idx, SpanEnd(s, r.idx, {"\n"}) - 1))

\* semdep.parsers.util.upto(d, consume_other=True): a non-empty span of
\* characters of the line that does not contain d, then d, which is consumed
upto(d, s, r) ==
    IF ~r.ok THEN Fail ELSE
    LET j == SpanEnd(s, r.idx, {d, "\n"})
    IN  IF j > r.idx /\ j <= Len(s) /\ s[j] = d
        THEN Ok(j + 1, SubSeq(s, r.idx, j - 1))
        ELSE Fail

\* the 1-based number of the line that holds index i
line_number(s, i) == 1 + Cardinality({k \in 1..(i - 1) : k <= Len(s) /\ s[k] = "\n"})

\* semdep.parsers.util.mark_line(p): p's value paired with the number of the
\* line p started on (res is the result of p applied to r)
mark_line(res, s, r) ==
    IF res.ok THEN Ok(res.idx, <<line_number(s, r.idx), res.val>>) ELSE Fail

\* Parser.parse: the value when the parser accepts the whole text
parse(s, r) == IF r.ok /\ r.idx = Len(s) + 1 THEN [some |-> TRUE, val |-> r.val]
               ELSE [some |-> FALSE, val |-> <<>>]

----------------------------------------------------------------------------
(* pom_tree.py *)

\* dep keeping the group identifier instead of the artifact name
dep_group_as_name(s, r) ==
    LET group   == upto(Colon, s, r)
        version == upto(Colon, s, upto(Colon, s, upto(Colon, s, group)))
        rest    == consume_line(s, version)
    IN  IF rest.ok THEN Ok(rest.idx, <<group.val, version.val>>) ELSE Fail

\* dep taking the rest of the line after the artifact name as the version
dep_two_fields(s, r) ==
    LET package == upto(Colon, s, upto(Colon, s, r))
        rest    == consume_line(s, package)
    IN  IF rest.ok THEN Ok(rest.idx, <<package.val, rest.val>>) ELSE Fail

dep(s, r) ==
    LET package == upto(Colon, s, upto(Colon, s, r))
        version == upto(Colon, s, upto(Colon, s, package))
        rest    == consume_line(s, version)
    IN  IF rest.ok THEN Ok(rest.idx, <<package.val, version.val>>) ELSE Fail

\* string("|  ") | string("   ")
marker(s, r) ==
    IF string(Bar, s, r).ok THEN string(Bar, s, r) ELSE string(Fill, s, r)

RECURSIVE many_markers(_, _, _)
\* the markers at r, as many as there are
many_markers(s, r, acc) ==
    IF marker(s, r).ok
    THEN many_markers(s, marker(s, r), Append(acc, marker(s, r).val))
    ELSE Ok(r.idx, acc)

\* (string("|  ") | string("   ")).at_least(1) | success([])
depth_prefix(s, r) ==
    IF ~r.ok THEN Fail
    ELSE IF marker(s, r).ok THEN many_markers(s, r, <<>>) ELSE Ok(r.idx, <<>>)

\* the branch glyph made optional
branch_optional(s, r) ==
    IF string(Tee, s, r).ok THEN string(Tee, s, r)
    ELSE IF string(Last, s, r).ok THEN string(Last, s, r)
    ELSE r

\* string("+- ") | string(r"\- ")
branch(s, r) ==
    IF string(Tee, s, r).ok THEN string(Tee, s, r) ELSE string(Last, s, r)

\* the depth test off by one
Transitivity_deeper(depth) == IF Len(depth) > 1 THEN "Transitive" ELSE "Direct"

Transitivity(depth) == IF Len(depth) > 0 THEN "Transitive" ELSE "Direct"

\* dep.map(lambda d: (Transitivity(...), d[0], d[1]))
dep_map(depth, d) ==
    IF d.ok THEN Ok(d.idx, <<Transitivity(depth), d.val[1], d.val[2]>>) ELSE Fail

tree_line_body(s, r) ==
    LET depth == depth_prefix(s, r)
    IN  dep_map(depth.val, dep(s, branch(s, depth)))

tree_line(s, r) == mark_line(tree_line_body(s, r), s, r)

RECURSIVE sep_by_more(_, _, _)
\* (string("\n") >> tree_line).many(): a separator that no tree line follows
\* is not consumed
sep_by_more(s, r, acc) ==
    LET t == tree_line(s, string(NL, s, r))
    IN  IF t.ok THEN sep_by_more(s, t, Append(acc, t.val)) ELSE Ok(r.idx, acc)

\* a single optional tree line instead of sep_by
tree_lines_single(s, r) ==
    IF ~r.ok THEN Fail ELSE
    LET first == tree_line(s, r)
    IN  IF first.ok THEN Ok(first.idx, <<first.val>>) ELSE Ok(r.idx, <<>>)

\* tree_line.sep_by(string("\n"))
tree_lines(s, r) ==
    IF ~r.ok THEN Fail ELSE
    LET first == tree_line(s, r)
    IN  IF first.ok THEN sep_by_more(s, first, <<first.val>>) ELSE Ok(r.idx, <<>>)

\* pom_tree without the optional final line break
pom_tree_no_final_break(s, r) ==
    tree_lines(s, string(NL, s, consume_line(s, r)))

\* pom_tree classifying the first line like every other line
pom_tree_keep_root(s, r) ==
    skip_optional(NL, s, tree_lines(s, r))

pom_tree(s, r) ==
    skip_optional(NL, s, tree_lines(s, string(NL, s, consume_line(s, r))))

None == [some |-> FALSE, val |-> <<>>]

\* semdep.parsers.util.safe_path_parse: the parser's value when it accepts the
\* whole text, None otherwise
safe_path_parse(s) == parse(s, pom_tree(s, At(1)))

\* `not deps`
Falsy(d) == ~d.some \/ d.val = <<>>

\* the record numbered from 0
FoundDependency_zero_based(d) ==
    [ package       |-> d[2][2],
      version       |-> d[2][3],
      ecosystem     |-> "Maven",
      allowed_hashes |-> {},
      transitivity  |-> d[2][1],
      line_number   |-> d[1] - 1 ]

FoundDependency(d) ==
    [ package       |-> d[2][2],
      version       |-> d[2][3],
      ecosystem     |-> "Maven",
      allowed_hashes |-> {},
      transitivity  |-> d[2][1],
      line_number   |-> d[1] ]

\* lines 62-76 as a function of deps
records(d) ==
    IF Falsy(d) THEN <<>>
    ELSE [k \in 1..Len(d.val) |-> FoundDependency(d.val[k])]

\* parse_pom_tree as a function of the text
parse_pom_tree(s) == records(safe_path_parse(s))

----------------------------------------------------------------------------
(* parse_pom_tree, step by step *)

Init ==
    /\ doc \in Docs
    /\ text = Render(doc)
    /\ pc = "start"
    /\ deps = None
    /\ output = <<>>

\* deps = safe_path_parse(tree_path, pom_tree)
SafePathParse ==
    /\ pc = "start"
    /\ deps' = safe_path_parse(text)
    /\ pc' = "guard"
    /\ UNCHANGED <<doc, text, output>>

\* if not deps: return []
ReturnEmpty ==
    /\ pc = "guard"
    /\ Falsy(deps)
    /\ output' = <<>>
    /\ pc' = "done"
    /\ UNCHANGED <<doc, text, deps>>

\* output = []
EnterLoop ==
    /\ pc = "guard"
    /\ ~Falsy(deps)
    /\ output' = <<>>
    /\ pc' = "loop"
    /\ UNCHANGED <<doc, text, deps>>

\* one iteration inserting at the front
AppendRecord_front ==
    /\ pc = "loop"
    /\ Len(output) < Len(deps.val)
    /\ output' = <<FoundDependency(deps.val[Len(output) + 1])>> \o output
    /\ UNCHANGED <<doc, text, deps, pc>>

\* one iteration of the for loop: the next element of deps is appended
AppendRecord ==
    /\ pc = "loop"
    /\ Len(output) < Len(deps.val)
    /\ output' = Append(output, FoundDependency(deps.val[Len(output) + 1]))
    /\ UNCHANGED <<doc, text, deps, pc>>

\* return output
ReturnOutput ==
    /\ pc = "loop"
    /\ Len(output) = Len(deps.val)
    /\ pc' = "done"
    /\ UNCHANGED <<doc, text, deps, output>>

Next ==
    \/ SafePathParse
    \/ ReturnEmpty
    \/ EnterLoop
    \/ AppendRecord
    \/ ReturnOutput

Spec == Init /\ [][Next]_vars

----------------------------------------------------------------------------
(* What a document says, read off its description and its text *)

Done == pc = "done"

MarkersOnly(l) == \A j \in DOMAIN l.pre : l.pre[j] \in Markers
Depth(l) == Len(l.pre)

\* the first four fields are there and none is empty
FourFields(l) == Len(l.coord) >= 4 /\ \A j \in 1..4 : l.coord[j] # <<>>

\* zero or more markers, one branch glyph, and a coordinate
\* group:artifact:packaging:version:scope[:classifier]
GoodLine(l) == MarkersOnly(l) /\ l.glyph \in Glyphs /\ FourFields(l) /\ Len(l.coord) >= 5

WellFormed(d) == \A k \in DOMAIN d.lines : GoodLine(d.lines[k])

RECURSIVE SplitLines(_, _)
SplitLines(s, i) ==
    LET j == SpanEnd(s, i, {"\n"})
    IN  <<SubSeq(s, i, j - 1)>> \o (IF j > Len(s) THEN <<>> ELSE SplitLines(s, j + 1))

\* the lines of a text, the text after a final line break being a blank line
TextLines(s) == SplitLines(s, 1)

NonRootNonBlank(s) ==
    Cardinality({n \in 2..Len(TextLines(s)) : TextLines(s)[n] # <<>>})

WithCoord(d, k, c) == [d EXCEPT !.lines[k].coord = c]

----------------------------------------------------------------------------
(* Claims *)

C2_TransitivityFromDepth ==
    (Done /\ WellFormed(doc)) =>
        /\ Len(output) = Len(doc.lines)
        /\ \A k \in DOMAIN output :
              output[k].transitivity =
                  IF Depth(doc.lines[k]) = 0 THEN "Direct" ELSE "Transitive"

C2_Witness ==
    /\ Done /\ Len(output) = 2
    /\ doc.lines[1].pre = <<>> /\ doc.lines[1].glyph = Last
    /\ output[1].transitivity = "Direct"
    /\ doc.lines[2].pre = <<Fill, Bar>> /\ doc.lines[2].glyph = Tee
    /\ output[2].transitivity = "Transitive"

\* C3: the line_number of every returned record is the 1-based position, in
\* the text, of the line the record was parsed from; the root label is line 1.
C3_LineNumber ==
    Done =>
        \A k \in DOMAIN output :
            LET n == output[k].line_number
            IN  /\ k \in DOMAIN doc.lines
                /\ n = k + 1
                /\ n \in 2..Len(TextLines(text))
                /\ TextLines(text)[n] = LineText(doc.lines[k])

C3_Witness ==
    /\ Done /\ Len(output) = 2
    /\ output[1].line_number = 2 /\ output[2].line_number = 3
    /\ doc.lines[1].coord # doc.lines[2].coord

\* C4: name is the second field and version the fourth field of the
\* coordinate; the first field, the third field and the tail after the fourth
\* colon do not change the record.
C4_NameAndVersion ==
    Done =>
        \A k \in DOMAIN output :
            /\ k \in DOMAIN doc.lines
            /\ FourFields(doc.lines[k])
            /\ output[k].package = doc.lines[k].coord[2]
            /\ output[k].version = doc.lines[k].coord[4]
            /\ \A c \in {CoordA, CoordB, CoordTail} :
                  (c[2] = doc.lines[k].coord[2] /\ c[4] = doc.lines[k].coord[4])
                      => parse_pom_tree(Render(WithCoord(doc, k, c))) = output

C4_Witness ==
    /\ Done /\ Len(output) = 2
    /\ doc.lines[1].coord = CoordTail
    /\ output[1].package = <<"a">> /\ output[1].version = <<"1">>
    /\ doc.lines[2].coord = CoordB
    /\ output[2].package = <<"b", "b">> /\ output[2].version = <<"2", ".", "0">>

\* C5: when a non-root line fails the grammar, parse_pom_tree returns the
\* empty sequence, never the records of the well-formed lines around it.
C5_NoPartialResult ==
    (pc \in {"loop", "done"} /\ ~WellFormed(doc)) => output = <<>>

C5_Witness ==
    /\ Done /\ Len(doc.lines) = 2 /\ output = <<>>
    /\ GoodLine(doc.lines[1])
    /\ doc.lines[2].glyph = NoGlyph /\ doc.lines[2].coord = CoordA

\* a branch glyph and three colon-delimited fields
ThreeFieldLine(l) == MarkersOnly(l) /\ l.glyph \in Glyphs /\ Len(l.coord) = 3

\* C6: a line with a branch glyph and only three colon-delimited fields
\* makes parse_pom_tree return the empty sequence, wherever the line stands.
C6_ThreeFieldsFail ==
    (Done /\ \E k \in DOMAIN doc.lines : ThreeFieldLine(doc.lines[k]))
        => output = <<>>

C6_Witness ==
    /\ Done /\ Len(doc.lines) = 2 /\ output = <<>>
    /\ ThreeFieldLine(doc.lines[1])
    /\ GoodLine(doc.lines[2])

\* C7: the records are in document order: record i is the record of the
\* i-th dependency line, and line numbers grow along the output.
C7_DocumentOrder ==
    Done =>
        /\ \A i, j \in DOMAIN output :
              i < j => output[i].line_number < output[j].line_number
        /\ output # <<>> =>
              [k \in DOMAIN output |-> <<output[k].package, output[k].version>>]
                  = [k \in DOMAIN doc.lines |->
                        <<doc.lines[k].coord[2], doc.lines[k].coord[4]>>]

C7_Witness ==
    /\ Done /\ Len(output) = 2
    /\ doc.lines[1].coord = CoordB /\ doc.lines[2].coord = CoordA
    /\ output[1].package = <<"b", "b">> /\ output[2].package = <<"a">>

\* C8: for a well-formed document that does not end in a line break, the
\* document followed by one line break yields the same records.
C8_FinalLineBreak ==
    (Done /\ WellFormed(doc) /\ ~doc.nl) =>
        parse_pom_tree(text \o NL) = output

C8_Witness ==
    /\ Done /\ WellFormed(doc) /\ ~doc.nl /\ Len(output) = 2
    /\ parse_pom_tree(text \o NL) # <<>>

\* C9: the first line never produces a record and its content does not
\* change the result; a document of the root label alone yields nothing.
C9_RootDiscarded ==
    Done =>
        /\ \A k \in DOMAIN output : output[k].line_number > 1
        /\ Len(output) <= Len(doc.lines)
        /\ \A r \in Roots : parse_pom_tree(Render([doc EXCEPT !.root = r])) = output
        /\ doc.lines = <<>> => output = <<>>

C9_Witness ==
    /\ Done /\ doc.root # PlainRoot /\ Len(doc.lines) = 1 /\ Len(output) = 1

\* a branch glyph and four non-empty fields, with or without a tail
AcceptedByClaim(l) == MarkersOnly(l) /\ l.glyph \in Glyphs /\ FourFields(l)

\* C10: a line whose coordinate has exactly four fields and no fourth colon
\* is accepted with version = the fourth field, and the line after it yields
\* its own record.
C10_FourFieldsAccepted ==
    (Done /\ \A k \in DOMAIN doc.lines : AcceptedByClaim(doc.lines[k])) =>
        /\ Len(output) = Len(doc.lines)
        /\ \A k \in DOMAIN output : output[k].version = doc.lines[k].coord[4]

====
